---- MODULE Spec2Model ----
(***************************************************************************)
(* Model of the execve sensor:                                             *)
(*   - handle_execve  (src/sensor/ebpf/src/syscall_monitor.bpf.c), the     *)
(*     tracepoint program that reserves a ring-buffer slot, fills one      *)
(*     struct syscall_event field by field and submits it;                 *)
(*   - main, handle_sig, handle_event                                      *)
(*     (src/sensor/ebpf/loader/syscall_loader.c), the loader that sets the *)
(*     program up, polls the ring buffer and prints each record.           *)
(* The BPF ring buffer itself (bpf_ringbuf_reserve / bpf_ringbuf_submit in *)
(* the kernel, ring_buffer__poll in libbpf) is modelled at the call sites  *)
(* with the semantics of those helpers: positions advance in reservation   *)
(* order, a reserved record carries a busy bit until it is submitted, and  *)
(* the consumer stops at the first busy record.                            *)
(***************************************************************************)
EXTENDS Integers, Sequences, FiniteSets, TLC

(***************************************************************************)
(* Bounds of the model.                                                    *)
(***************************************************************************)
\* number of producer contexts (CPUs running the tracepoint program)
NCtx == 2
\* total number of handle_execve invocations in one run
MaxInv == 3
\* number of records the (scaled-down) ring holds
MaxRecords == 2
\* total number of handle_execve invocations in a run of SpecFields, which
\* draws the pathname and the previous slot contents from the full input sets
MaxFieldInv == 1

(***************************************************************************)
(* Program constants.                                                      *)
(***************************************************************************)
TASK_COMM_LEN == 16
MAX_PATH_LEN == 256
EINTR == 4

\* sizeof(struct syscall_event): 8 + 5*4 + 16 + 256 = 300, padded to the
\* 8-byte alignment of its __u64 member.
SizeofEvent == ((8 + 5 * 4 + TASK_COMM_LEN + MAX_PATH_LEN + 7) \div 8) * 8
\* bytes one reservation takes: round_up(size + BPF_RINGBUF_HDR_SZ, 8), the
\* record header being 8 bytes
RecLen == ((SizeofEvent + 8 + 7) \div 8) * 8
\* max_entries of the events map.  The source sets 1 << 24; the model scales
\* it down so that exactly MaxRecords records fit (the kernel refuses a
\* reservation that would put the producer more than max_entries - 1 bytes
\* ahead of the consumer).
max_entries == MaxRecords * RecLen + 1

Ctx == 1..NCtx

\* the null pointer (also: main has not returned a status yet)
NULL == -1

Fields == {"ts_ns", "pid", "ppid", "uid", "gid", "syscall_ret", "comm", "filename"}

(***************************************************************************)
(* Byte strings.  A char array is a sequence of bytes, 0 is the            *)
(* terminator.                                                             *)
(***************************************************************************)
Fill(n, b) == [i \in 1..n |-> b]

HasNul(buf) == \E i \in 1..Len(buf) : buf[i] = 0

FirstNul(buf) == CHOOSE i \in 1..Len(buf) : buf[i] = 0 /\ \A j \in 1..(i - 1) : buf[j] # 0

\* what printf("%s") prints for a char array: the bytes before the first
\* terminator; without a terminator in the array it runs past its end
\* (marked by a -1 behind the bytes of the array).
CStr(buf) == IF HasNul(buf) THEN SubSeq(buf, 1, FirstNul(buf) - 1) ELSE buf \o <<-1>>

\* a pathname of n bytes, none of them 0
PathBytes(n) == [i \in 1..n |-> 97 + (i % 3)]

BinSh == <<47, 98, 105, 110, 47, 115, 104>>

(***************************************************************************)
(* The calling task of each producer context.  A __u64 is kept as its two  *)
(* 32-bit words: hi = bits 63..32, lo = bits 31..0.                        *)
(*   bpf_get_current_pid_tgid() = tgid << 32 | pid  (thread id in lo)      *)
(*   bpf_get_current_uid_gid()  = gid << 32 | uid                          *)
(***************************************************************************)
Task(p) ==
    IF p = 1
    THEN [pid_tgid |-> [hi |-> 100, lo |-> 101], uid_gid |-> [hi |-> 0, lo |-> 0],
          parent_tgid |-> 1,
          comm |-> <<115, 104>> \o Fill(TASK_COMM_LEN - 2, 0)]
    ELSE [pid_tgid |-> [hi |-> 200 + p, lo |-> 300 + p],
          uid_gid |-> [hi |-> 1001, lo |-> 1000],
          parent_tgid |-> 100,
          comm |-> Fill(TASK_COMM_LEN - 1, 120) \o <<0>>]

\* What user memory holds at ctx->args[0]: `bytes` readable bytes without a
\* terminator, followed by a terminator (fault = FALSE) or by an unmapped
\* page (fault = TRUE).
PathArgs ==
    { [bytes |-> <<>>, fault |-> FALSE],
      [bytes |-> BinSh, fault |-> FALSE],
      [bytes |-> PathBytes(MAX_PATH_LEN - 1), fault |-> FALSE],
      [bytes |-> PathBytes(MAX_PATH_LEN), fault |-> FALSE],
      [bytes |-> PathBytes(MAX_PATH_LEN + 1), fault |-> FALSE],
      [bytes |-> <<>>, fault |-> TRUE],
      [bytes |-> BinSh, fault |-> TRUE] }

\* previous contents of a slot's memory: every byte 0, or every byte stale
StaleBytes == {0, 85}

\* the inputs of the runs that explore the interleavings (Spec): one
\* pathname, stale slot memory
SpecArgs == {[bytes |-> BinSh, fault |-> FALSE]}
SpecStale == {85}

StaleEvent(b) ==
    [ts_ns |-> b, pid |-> b, ppid |-> b, uid |-> b, gid |-> b, syscall_ret |-> b,
     comm |-> Fill(TASK_COMM_LEN, b), filename |-> Fill(MAX_PATH_LEN, b)]

(***************************************************************************)
(* Kernel helpers used by handle_execve.                                   *)
(***************************************************************************)
\* bpf_get_current_comm(buf, size): strscpy_pad of task->comm, at most
\* size - 1 bytes, the rest of buf zeroed.
bpf_get_current_comm(comm, size) ==
    LET s == CStr(comm)
        n == IF Len(s) < size - 1 THEN Len(s) ELSE size - 1
    IN  [i \in 1..size |-> IF i <= n THEN s[i] ELSE 0]

\* (a copy that fills dst up to size without forcing the terminator)
bpf_core_read_user_str_NoTerm(dst, size, src) ==
    IF Len(src.bytes) >= size
    THEN [i \in 1..Len(dst) |-> IF i <= size THEN src.bytes[i] ELSE dst[i]]
    ELSE IF src.fault
    THEN [i \in 1..Len(dst) |-> IF i <= size THEN 0 ELSE dst[i]]
    ELSE [i \in 1..Len(dst) |->
            IF i <= Len(src.bytes) THEN src.bytes[i]
            ELSE IF i = Len(src.bytes) + 1 THEN 0 ELSE dst[i]]

\* (a copy that leaves dst as it is when the read faults)
bpf_core_read_user_str_NoZero(dst, size, src) ==
    IF Len(src.bytes) >= size
    THEN [i \in 1..Len(dst) |->
            IF i < size THEN src.bytes[i] ELSE IF i = size THEN 0 ELSE dst[i]]
    ELSE IF src.fault
    THEN [i \in 1..Len(dst) |-> IF i <= Len(src.bytes) THEN src.bytes[i] ELSE dst[i]]
    ELSE [i \in 1..Len(dst) |->
            IF i <= Len(src.bytes) THEN src.bytes[i]
            ELSE IF i = Len(src.bytes) + 1 THEN 0 ELSE dst[i]]

\* (a copy that keeps one byte less than fits)
bpf_core_read_user_str_Short(dst, size, src) ==
    IF Len(src.bytes) >= size - 1
    THEN [i \in 1..Len(dst) |->
            IF i < size - 1 THEN src.bytes[i] ELSE IF i = size - 1 THEN 0 ELSE dst[i]]
    ELSE IF src.fault
    THEN [i \in 1..Len(dst) |-> IF i <= size THEN 0 ELSE dst[i]]
    ELSE [i \in 1..Len(dst) |->
            IF i <= Len(src.bytes) THEN src.bytes[i]
            ELSE IF i = Len(src.bytes) + 1 THEN 0 ELSE dst[i]]

\* bpf_core_read_user_str(dst, size, src) = bpf_probe_read_user_str: copies
\* the string with its terminator, at most size bytes, the last one forced
\* to 0; bytes of dst behind the terminator keep their old value.  When the
\* read faults before a terminator or size bytes were seen, dst is zeroed.
bpf_core_read_user_str(dst, size, src) ==
    IF Len(src.bytes) >= size
    THEN [i \in 1..Len(dst) |->
            IF i < size THEN src.bytes[i] ELSE IF i = size THEN 0 ELSE dst[i]]
    ELSE IF src.fault
    THEN [i \in 1..Len(dst) |-> IF i <= size THEN 0 ELSE dst[i]]
    ELSE [i \in 1..Len(dst) |->
            IF i <= Len(src.bytes) THEN src.bytes[i]
            ELSE IF i = Len(src.bytes) + 1 THEN 0 ELSE dst[i]]

(***************************************************************************)
(* State.                                                                  *)
(***************************************************************************)
VARIABLES
    ring,        \* records between consumer_pos and producer_pos, oldest first
    prod_pos,    \* producer position (bytes)
    cons_pos,    \* consumer position (bytes)
    ppc,         \* per context: statement handle_execve is at
    e,           \* per context: the reserved slot (its position) or NULL
    arg,         \* environment: what user memory holds at ctx->args[0]
    stale,       \* environment: the byte that fills ring memory never written
    clock,       \* bpf_ktime_get_ns
    nInv,        \* number of handle_execve invocations so far
    attached,    \* the tracepoint program is attached
    cpc,         \* statement main is at
    err,         \* main's err
    skel,        \* main's skel is non-NULL
    rb,          \* main's rb is non-NULL
    stop,        \* the stop flag
    intr,        \* a signal arrived while main was blocked in epoll_wait
    cnt,         \* records consumed by the poll in progress
    status,      \* main's return value, NULL before it returns
    out,         \* history: what handle_event printed, in order
    commitSeq,   \* history: ids in bpf_ringbuf_submit order
    reserveSeq,  \* history: ids in bpf_ringbuf_reserve order
    reserveCtx,  \* history: the context of each reservation, in the same order
    committed,   \* history: each record as it was when it was submitted
    atStop,      \* history: ids committed when stop was first set
    pollsAfterStop, \* history: ring_buffer__poll calls started with stop set
    polled,      \* history: main has called ring_buffer__poll
    msgs,        \* history: messages main wrote to stderr
    cleanup      \* history: cleanup calls main made, in order

vars == <<ring, prod_pos, cons_pos, ppc, e, arg, stale, clock, nInv, attached,
          cpc, err, skel, rb, stop, intr, cnt, status,
          out, commitSeq, reserveSeq, reserveCtx, committed, atStop, pollsAfterStop, polled, msgs, cleanup>>

prodVars == <<ppc, e, clock, nInv>>
envVars == <<arg, stale>>
ringVars == <<ring, prod_pos, cons_pos>>
mainVars == <<cpc, err, skel, rb, cnt, status, attached>>
sigVars == <<stop, intr, atStop>>
mainHist == <<pollsAfterStop, polled, msgs, cleanup>>
prodHist == <<commitSeq, reserveSeq, reserveCtx, committed>>

\* the state after line 41 of main, the program not loaded yet, with the
\* environment inputs drawn from A and B
InitWith(A, B) ==
    /\ arg \in A
    /\ stale \in B
    /\ ring = <<>>
    /\ prod_pos = 0
    /\ cons_pos = 0
    /\ ppc = [p \in Ctx |-> "idle"]
    /\ e = [p \in Ctx |-> NULL]
    /\ clock = 1
    /\ nInv = 0
    /\ attached = FALSE
    /\ cpc = "open"
    /\ err = 0
    /\ skel = FALSE
    /\ rb = FALSE
    /\ stop = 0
    /\ intr = FALSE
    /\ cnt = 0
    /\ status = NULL
    /\ out = <<>>
    /\ commitSeq = <<>>
    /\ reserveSeq = <<>>
    /\ reserveCtx = <<>>
    /\ committed = <<>>
    /\ atStop = {}
    /\ pollsAfterStop = 0
    /\ polled = FALSE
    /\ msgs = <<>>
    /\ cleanup = <<>>

Init == InitWith(SpecArgs, SpecStale)

InitFields == InitWith(PathArgs, StaleBytes)

(***************************************************************************)
(* handle_execve.                                                          *)
(***************************************************************************)
\* index in ring of the record at position pos, 0 when there is none
IndexOf(pos) ==
    IF \E i \in 1..Len(ring) : ring[i].pos = pos
    THEN CHOOSE i \in 1..Len(ring) : ring[i].pos = pos
    ELSE 0

\* offset in the data area of the ring of the byte at position pos
\* (positions only grow, the data area is used in a circle)
SlotOf(pos) == pos % max_entries

\* the records at positions a and b share bytes of the data area
Overlap(a, b) ==
    \/ SlotOf(b - a + max_entries * MaxInv) < RecLen
    \/ SlotOf(a - b + max_entries * MaxInv) < RecLen

\* __bpf_ringbuf_reserve: there is room unless the new producer position
\* would be more than max_entries - 1 (the mask) ahead of the consumer
HasRoom_Always(pp, cp) == TRUE

HasRoom_OneMore(pp, cp) == ~(pp - cp > max_entries - 1)

HasRoom(pp, cp) == ~((pp + RecLen) - cp > max_entries - 1)

\* line 30: if (!e) return 0;
AfterReserve_NoNullCheck(slot) == "ids"

AfterReserve(slot) == IF slot = NULL THEN "idle" ELSE "ids"

\* the order of the statements of handle_execve behind the reservation:
\* "ids" are the lines 32-41 (ts_ns, pid, uid, gid, ppid), "comm" line 43,
\* "filename" line 46-47, "submit" line 49
NextStmt_SubmitEarly(s) ==
    CASE s = "ids" -> "comm"
      [] s = "comm" -> "submit"
      [] s = "submit" -> "filename"
      [] s = "filename" -> "idle"

NextStmt_NoSubmit(s) ==
    CASE s = "ids" -> "comm"
      [] s = "comm" -> "filename"
      [] s = "filename" -> "idle"
      [] s = "submit" -> "idle"

NextStmt(s) ==
    CASE s = "ids" -> "comm"
      [] s = "comm" -> "filename"
      [] s = "filename" -> "submit"
      [] s = "submit" -> "idle"

\* handle_execve of context p moves from statement s to the next one; its
\* local e is gone when it returns
Goto(p, s) ==
    /\ ppc' = [ppc EXCEPT ![p] = s]
    /\ e' = [e EXCEPT ![p] = IF s = "idle" THEN NULL ELSE @]

\* the stores e->f = v[f], f in the domain of v, by context p into the slot
\* e points to
Store(p, v) ==
    LET i == IndexOf(e[p])
    IN  IF i = 0 THEN ring
        ELSE [ring EXCEPT
                ![i].data = [f \in Fields |-> IF f \in DOMAIN v THEN v[f] ELSE @[f]],
                ![i].written = @ \cup DOMAIN v]

\* bpf_ringbuf_reserve hands out the space at the producer position: the new
\* record is the last one in the ring
Enqueue_Front(r, rec) == <<rec>> \o r

Enqueue(r, rec) == Append(r, rec)

\* line 29-30: the tracepoint fires on context p; reserve a slot or return
Reserve(p, lim) ==
    /\ attached
    /\ ppc[p] = "idle"
    /\ nInv < lim
    /\ nInv' = nInv + 1
    /\ IF HasRoom(prod_pos, cons_pos)
       THEN /\ ring' = Enqueue(ring, [id |-> nInv + 1, pos |-> prod_pos, busy |-> TRUE,
                                        written |-> {}, data |-> StaleEvent(stale)])
              /\ prod_pos' = prod_pos + RecLen
              /\ e' = [e EXCEPT ![p] = prod_pos]
              /\ ppc' = [ppc EXCEPT ![p] = AfterReserve(prod_pos)]
              /\ reserveSeq' = Append(reserveSeq, nInv + 1)
              /\ reserveCtx' = Append(reserveCtx, p)
       ELSE /\ ppc' = [ppc EXCEPT ![p] = AfterReserve(NULL)]
            /\ UNCHANGED <<ring, prod_pos, e, reserveSeq, reserveCtx>>
    /\ UNCHANGED <<cons_pos, clock, commitSeq, committed, out>>
    /\ UNCHANGED <<mainVars, sigVars, mainHist, envVars>>

\* line 34-35: e->pid = pid_tgid >> 32;
PidOf_Low(pid_tgid) == pid_tgid.lo

PidOf(pid_tgid) == pid_tgid.hi

\* line 37-38: e->uid = (__u32)uid_gid;
UidOf(uid_gid) == uid_gid.lo

\* line 39: e->gid = (__u32)(uid_gid >> 32);
GidOf(uid_gid) == uid_gid.hi

\* line 19-24: the tgid of the real parent of the current task
get_ppid_tgid(p) == Task(p).parent_tgid

\* line 32-41: the scalar fields handle_execve stores
IdFields(p, now) ==
    [ts_ns |-> now,
     pid |-> PidOf(Task(p).pid_tgid),
     uid |-> UidOf(Task(p).uid_gid),
     gid |-> GidOf(Task(p).uid_gid),
     ppid |-> get_ppid_tgid(p)]

\* line 32-41: e->ts_ns = bpf_ktime_get_ns(); ... e->ppid = get_ppid_tgid();
WriteIds(p) ==
    /\ ppc[p] = "ids"
    /\ ring' = Store(p, IdFields(p, clock))
    /\ clock' = clock + 1
    /\ Goto(p, NextStmt("ids"))
    /\ UNCHANGED <<prod_pos, cons_pos, nInv, prodHist, out>>
    /\ UNCHANGED <<mainVars, sigVars, mainHist, envVars>>

\* line 43: bpf_get_current_comm(&e->comm, sizeof(e->comm));
WriteComm(p) ==
    /\ ppc[p] = "comm"
    /\ ring' = Store(p, [comm |-> bpf_get_current_comm(Task(p).comm, TASK_COMM_LEN)])
    /\ Goto(p, NextStmt("comm"))
    /\ UNCHANGED <<prod_pos, cons_pos, clock, nInv, prodHist, out>>
    /\ UNCHANGED <<mainVars, sigVars, mainHist, envVars>>

\* the filename array of the slot context p holds
CurFilename(p) ==
    IF IndexOf(e[p]) = 0 THEN Fill(MAX_PATH_LEN, 0) ELSE ring[IndexOf(e[p])].data.filename

\* line 46-47: bpf_core_read_user_str(&e->filename, sizeof(e->filename), filename);
WriteFilename(p) ==
    /\ ppc[p] = "filename"
    /\ ring' = Store(p, [filename |->
                           bpf_core_read_user_str(CurFilename(p), MAX_PATH_LEN, arg)])
    /\ Goto(p, NextStmt("filename"))
    /\ UNCHANGED <<prod_pos, cons_pos, clock, nInv, prodHist, out>>
    /\ UNCHANGED <<mainVars, sigVars, mainHist, envVars>>

\* line 49: bpf_ringbuf_submit(e, 0); clears the busy bit of the record
Submit(p) ==
    /\ ppc[p] = "submit"
    /\ LET i == IndexOf(e[p])
       IN  IF i = 0
           THEN UNCHANGED <<ring, commitSeq, committed>>
           ELSE /\ ring' = [ring EXCEPT ![i].busy = FALSE]
                /\ commitSeq' = Append(commitSeq, ring[i].id)
                /\ committed' = Append(committed, [id |-> ring[i].id, data |-> ring[i].data])
    /\ Goto(p, NextStmt("submit"))
    /\ UNCHANGED <<prod_pos, cons_pos, clock, nInv, reserveSeq, reserveCtx, out>>
    /\ UNCHANGED <<mainVars, sigVars, mainHist, envVars>>

handle_execve(p, lim) ==
    \/ Reserve(p, lim)
    \/ WriteIds(p)
    \/ WriteComm(p)
    \/ WriteFilename(p)
    \/ Submit(p)

(***************************************************************************)
(* handle_sig, handle_event and main.                                      *)
(***************************************************************************)
\* line 13-16: SIGINT or SIGTERM is delivered.  A signal that arrives while
\* main is blocked in the epoll_wait of ring_buffer__poll interrupts it.
handle_sig ==
    /\ cpc # "done"
    /\ stop' = 1
    /\ intr' = (intr \/ cpc = "epoll_wait")
    /\ atStop' = IF stop = 0 THEN {commitSeq[i] : i \in 1..Len(commitSeq)} ELSE atStop
    /\ stop = 0 \/ intr' # intr
    /\ UNCHANGED <<ringVars, prodVars, envVars, mainVars, prodHist, mainHist, out>>

\* line 18-29: the line handle_event prints for the record it is given
handle_event(rec) ==
    [id |-> rec.id, busy |-> rec.busy, written |-> rec.written,
     ts_ns |-> rec.data.ts_ns, pid |-> rec.data.pid, ppid |-> rec.data.ppid,
     uid |-> rec.data.uid, gid |-> rec.data.gid,
     comm |-> CStr(rec.data.comm), filename |-> CStr(rec.data.filename)]

Say(m) == msgs' = Append(msgs, m)

\* line 43-47: skel = syscall_monitor_bpf__open();
Open ==
    /\ cpc = "open"
    /\ \/ /\ skel' = TRUE
          /\ cpc' = "load"
          /\ UNCHANGED <<msgs, status>>
       \/ /\ Say("failed to open BPF skeleton")
          /\ status' = 1
          /\ cpc' = "done"
          /\ UNCHANGED skel
    /\ UNCHANGED <<err, rb, cnt, attached, pollsAfterStop, polled, cleanup>>
    /\ UNCHANGED <<ringVars, prodVars, envVars, sigVars, prodHist, out>>

\* line 52, 58, 65: goto cleanup; the label is at line 77
GotoCleanup_Return == "return"

GotoCleanup == "free"

\* what the libbpf setup calls return: 0 or a negative errno (-EPERM)
SetupResults == {0, -1}

\* line 49-53: err = syscall_monitor_bpf__load(skel);
Load ==
    /\ cpc = "load"
    /\ \E r \in SetupResults :
          /\ err' = r
          /\ IF r # 0
             THEN Say("failed to load BPF skeleton") /\ cpc' = GotoCleanup
             ELSE UNCHANGED msgs /\ cpc' = "attach"
    /\ UNCHANGED <<skel, rb, cnt, status, attached, pollsAfterStop, polled, cleanup>>
    /\ UNCHANGED <<ringVars, prodVars, envVars, sigVars, prodHist, out>>

\* line 55-59: err = syscall_monitor_bpf__attach(skel);
Attach ==
    /\ cpc = "attach"
    /\ \E r \in SetupResults :
          /\ err' = r
          /\ IF r # 0
             THEN Say("failed to attach BPF programs") /\ cpc' = GotoCleanup /\ UNCHANGED attached
             ELSE UNCHANGED msgs /\ cpc' = "rb_new" /\ attached' = TRUE
    /\ UNCHANGED <<skel, rb, cnt, status, pollsAfterStop, polled, cleanup>>
    /\ UNCHANGED <<ringVars, prodVars, envVars, sigVars, prodHist, out>>

\* line 64: the value err gets when ring_buffer__new fails
RbNewErr == 1

\* line 61-66: rb = ring_buffer__new(...);
RbNew ==
    /\ cpc = "rb_new"
    /\ \/ /\ rb' = TRUE
          /\ cpc' = "loop"
          /\ UNCHANGED <<msgs, err>>
       \/ /\ Say("failed to create ring buffer")
          /\ err' = RbNewErr
          /\ cpc' = GotoCleanup
          /\ UNCHANGED rb
    /\ UNCHANGED <<skel, cnt, status, attached, pollsAfterStop, polled, cleanup>>
    /\ UNCHANGED <<ringVars, prodVars, envVars, sigVars, prodHist, out>>

\* line 68: while (!stop)
LoopCond_IgnoreStop(s) == TRUE

LoopCond(s) == s = 0

LoopHead ==
    /\ cpc = "loop"
    /\ cpc' = IF LoopCond(stop) THEN "poll" ELSE "free"
    /\ UNCHANGED <<err, skel, rb, cnt, status, attached, mainHist>>
    /\ UNCHANGED <<ringVars, prodVars, envVars, sigVars, prodHist, out>>

\* line 69: err = ring_buffer__poll(rb, 200): the call starts and blocks in
\* epoll_wait
PollEnter ==
    /\ cpc = "poll"
    /\ cpc' = "epoll_wait"
    /\ cnt' = 0
    /\ intr' = FALSE
    /\ polled' = TRUE
    /\ pollsAfterStop' = IF stop = 1 /\ pollsAfterStop < 2 THEN pollsAfterStop + 1
                         ELSE pollsAfterStop
    /\ UNCHANGED <<err, skel, rb, status, attached, msgs, cleanup, stop, atStop>>
    /\ UNCHANGED <<ringVars, prodVars, envVars, prodHist, out>>

\* the poll returns r to main
PollReturn(r) ==
    /\ err' = r
    /\ cpc' = "check"
    /\ intr' = FALSE
    /\ UNCHANGED <<skel, rb, cnt, status, attached, mainHist, stop, atStop>>
    /\ UNCHANGED <<ringVars, prodVars, envVars, prodHist, out>>

\* the ring holds a submitted record at the consumer position
HeadReady == ring # <<>> /\ ~ring[1].busy

\* epoll_wait times out after 200 ms: the poll returns 0
PollTimeout ==
    /\ cpc = "epoll_wait"
    /\ ~intr
    /\ ~HeadReady
    /\ PollReturn(0)

\* epoll_wait is interrupted by the signal: the poll returns -EINTR
PollInterrupted ==
    /\ cpc = "epoll_wait"
    /\ intr
    /\ PollReturn(-EINTR)

\* errors of epoll_wait other than EINTR (EBADF)
PollErrnos == {9}

\* epoll_wait fails: the poll returns the negative errno
PollError ==
    /\ cpc = "epoll_wait"
    /\ \E n \in PollErrnos : PollReturn(-n)

\* epoll_wait reports the ring readable: ringbuf_process_ring starts
PollWake ==
    /\ cpc = "epoll_wait"
    /\ ring # <<>>
    /\ cpc' = "process"
    /\ intr' = FALSE
    /\ UNCHANGED <<err, skel, rb, cnt, status, attached, mainHist, stop, atStop>>
    /\ UNCHANGED <<ringVars, prodVars, envVars, prodHist, out>>

\* ringbuf_process_ring looks at the header at the consumer position: the
\* record there is the next sample unless its busy bit is set (0: none)
NextSample_SkipBusy(r) ==
    IF \E i \in 1..Len(r) : ~r[i].busy
    THEN CHOOSE i \in 1..Len(r) : ~r[i].busy /\ \A j \in 1..(i - 1) : r[j].busy
    ELSE 0

NextSample(r) == IF r # <<>> /\ ~r[1].busy THEN 1 ELSE 0

\* the sample callback, handle_event, runs on the next sample
Callback ==
    /\ cpc = "process"
    /\ NextSample(ring) # 0
    /\ out' = Append(out, handle_event(ring[NextSample(ring)]))
    /\ cpc' = "ack"
    /\ UNCHANGED <<err, skel, rb, cnt, status, attached, mainHist>>
    /\ UNCHANGED <<ringVars, prodVars, envVars, sigVars, prodHist>>

\* the ring behind the record the callback returned from
Advance_KeepHead(r) == r

Advance(r) == Tail(r)

\* consumer_pos moves past the record
Ack ==
    /\ cpc = "ack"
    /\ ring' = Advance(ring)
    /\ cons_pos' = cons_pos + RecLen
    /\ cnt' = cnt + 1
    /\ cpc' = "process"
    /\ UNCHANGED <<err, skel, rb, status, attached, mainHist>>
    /\ UNCHANGED <<prod_pos, prodVars, envVars, sigVars, prodHist, out>>

\* no record left, or the next one busy: the poll returns the count
PollDone ==
    /\ cpc = "process"
    /\ NextSample(ring) = 0
    /\ PollReturn(cnt)

\* line 70-74
Check ==
    /\ cpc = "check"
    /\ IF err = -EINTR
       THEN cpc' = "free" /\ UNCHANGED msgs
       ELSE IF err < 0
       THEN Say("ring_buffer__poll error") /\ cpc' = "free"
       ELSE cpc' = "loop" /\ UNCHANGED msgs
    /\ UNCHANGED <<err, skel, rb, cnt, status, attached, pollsAfterStop, polled, cleanup>>
    /\ UNCHANGED <<ringVars, prodVars, envVars, sigVars, prodHist, out>>

\* line 78: ring_buffer__free(rb);
Free ==
    /\ cpc = "free"
    /\ cleanup' = Append(cleanup, "ring_buffer__free")
    /\ rb' = FALSE
    /\ cpc' = "destroy"
    /\ UNCHANGED <<err, skel, cnt, status, attached, pollsAfterStop, polled, msgs>>
    /\ UNCHANGED <<ringVars, prodVars, envVars, sigVars, prodHist, out>>

\* line 79: syscall_monitor_bpf__destroy(skel); detaches the program
Destroy ==
    /\ cpc = "destroy"
    /\ cleanup' = Append(cleanup, "syscall_monitor_bpf__destroy")
    /\ skel' = FALSE
    /\ attached' = FALSE
    /\ cpc' = "return"
    /\ UNCHANGED <<err, rb, cnt, status, pollsAfterStop, polled, msgs>>
    /\ UNCHANGED <<ringVars, prodVars, envVars, sigVars, prodHist, out>>

\* line 80: return err < 0 ? 1 : 0;
ExitStatus_Zero(x) == 0

ExitStatus(x) == IF x < 0 THEN 1 ELSE 0

Return ==
    /\ cpc = "return"
    /\ status' = ExitStatus(err)
    /\ cpc' = "done"
    /\ UNCHANGED <<err, skel, rb, cnt, attached, mainHist>>
    /\ UNCHANGED <<ringVars, prodVars, envVars, sigVars, prodHist, out>>

\* main by the part of the code it is in: its own statements (setup, line
\* 43-66; the loop, line 68-74; cleanup, line 77-80), the wait inside
\* ring_buffer__poll, and the processing of the ring inside ring_buffer__poll
MainStmts ==
    Open \/ Load \/ Attach \/ RbNew \/ LoopHead \/ PollEnter \/ Check \/ Free \/ Destroy \/ Return

MainWait == PollTimeout \/ PollInterrupted \/ PollError \/ PollWake

MainProcess == Callback \/ Ack \/ PollDone

main == MainStmts \/ MainWait \/ MainProcess

Next ==
    \/ \E p \in Ctx : handle_execve(p, MaxInv)
    \/ handle_sig
    \/ main

Spec == Init /\ [][Next]_vars

\* main is a running process: each of its steps is eventually taken.  At
\* every statement of main the enabled steps lie in one of the two parts
\* below and stay enabled until main moves, so the two conditions together
\* are weak fairness of main.  Nothing is assumed of the producers or of
\* the signal.
FairSpec ==
    /\ Init
    /\ [][Next]_vars
    /\ WF_vars(MainStmts \/ MainWait)
    /\ WF_vars(MainProcess)

\* the same program with every pathname and every previous slot content
NextFields ==
    \/ \E p \in Ctx : handle_execve(p, MaxFieldInv)
    \/ handle_sig
    \/ main

SpecFields == InitFields /\ [][NextFields]_vars


(***************************************************************************)
(* Properties.                                                             *)
(***************************************************************************)
\* ids of the records handle_event printed, in order
OutIds == [i \in 1..Len(out) |-> out[i].id]

\* position of x in the sequence q, 0 when it does not occur
PosIn(q, x) ==
    IF \E i \in 1..Len(q) : q[i] = x THEN CHOOSE i \in 1..Len(q) : q[i] = x ELSE 0

IsPrefix(q, r) == Len(q) <= Len(r) /\ \A i \in 1..Len(q) : q[i] = r[i]

\* C1 as stated: the records are passed to handle_event in the order of
\* their bpf_ringbuf_submit calls: a record submitted before another one is
\* emitted before it.
C1_EmittedInCommitOrder ==
    \A i, j \in 1..Len(out) :
        i < j => /\ PosIn(commitSeq, out[i].id) # 0
                 /\ PosIn(commitSeq, out[i].id) < PosIn(commitSeq, out[j].id)

\* C1 amended: the records are passed to handle_event in the order of their
\* bpf_ringbuf_reserve calls, none skipped: what was emitted so far is a
\* prefix of the reservation order, whatever the order of the submits.
C1_EmittedInReserveOrder == IsPrefix(OutIds, reserveSeq)

\* two records were emitted in the order opposite to their submits
C1_Witness ==
    /\ Len(out) >= 2
    /\ Len(commitSeq) >= 2
    /\ commitSeq[1] = out[2].id
    /\ commitSeq[2] = out[1].id

\* C2: when main has returned after a clean shutdown (stop set, no failure
\* reported), handle_event has run on every record that was committed
\* before the stop flag was set.
C2_NoCommittedEventAbandoned ==
    (cpc = "done" /\ stop = 1 /\ msgs = <<>>) =>
        \A id \in atStop : PosIn(OutIds, id) # 0

\* C3: when the loop ended because of the stop signal and no failure was
\* reported, main returns 0; when it ended because of a poll error, main
\* returns non-zero.
C3_StatusTellsStopFromError ==
    cpc = "done" =>
        /\ (polled /\ msgs = <<>>) => status = 0
        /\ (msgs = <<"ring_buffer__poll error">>) => status # 0

SetupMsgs ==
    {"failed to open BPF skeleton", "failed to load BPF skeleton",
     "failed to attach BPF programs", "failed to create ring buffer"}

\* C4: when a setup step failed, main has made no ring_buffer__poll call and
\* returns a non-zero status.
C4_SetupFailureFatal ==
    (cpc = "done" /\ msgs # <<>> /\ msgs[1] \in SetupMsgs) =>
        /\ ~polled
        /\ status # 0

\* the fields handle_execve stores before it submits the record
WrittenFields == {"ts_ns", "pid", "ppid", "uid", "gid", "comm", "filename"}

\* context p is about to store into its slot
AtStore(p) == ppc[p] \in {"ids", "comm", "filename"}

\* C5: handle_event runs only on records bpf_ringbuf_submit was called on
\* (never on a reserved record, whatever prefix of its fields is written),
\* and no store of handle_execve goes to a slot that was submitted: every
\* store hits a record that is still in the ring with its busy bit set.
C5_NoPartialRecordSeen ==
    /\ [](\A i \in 1..Len(out) : ~out[i].busy /\ PosIn(commitSeq, out[i].id) # 0)
    /\ [][\A p \in Ctx :
            (AtStore(p) /\ ppc'[p] # ppc[p]) =>
                (IndexOf(e[p]) # 0 /\ ring[IndexOf(e[p])].busy)]_vars

\* handle_event has run while the record at the consumer position was
\* reserved, partly written and not submitted
C5_Witness ==
    /\ cpc = "process"
    /\ Len(out) >= 1
    /\ ring # <<>>
    /\ ring[1].busy
    /\ ring[1].written # {}
    /\ ring[1].written # WrittenFields

\* C6: every field of struct syscall_event of a submitted record was
\* assigned by handle_execve after the slot was reserved.
C6_EveryFieldAssigned ==
    \A i \in 1..Len(ring) : ~ring[i].busy => ring[i].written = Fields

\* C7: comm and filename of every submitted record hold a terminator within
\* their 16 and 256 bytes, and what handle_event prints for them stays
\* inside the arrays.
C7_StringsTerminated ==
    /\ \A i \in 1..Len(ring) :
          ~ring[i].busy =>
              /\ Len(ring[i].data.comm) = TASK_COMM_LEN
              /\ HasNul(ring[i].data.comm)
              /\ Len(ring[i].data.filename) = MAX_PATH_LEN
              /\ HasNul(ring[i].data.filename)
    /\ \A i \in 1..Len(out) :
          /\ Len(out[i].comm) < TASK_COMM_LEN
          /\ Len(out[i].filename) < MAX_PATH_LEN
          /\ \A k \in 1..Len(out[i].comm) : out[i].comm[k] > 0
          /\ \A k \in 1..Len(out[i].filename) : out[i].filename[k] > 0

\* handle_event printed a record whose pathname was longer than the array,
\* written into a slot full of stale non-zero bytes
C7_Witness ==
    /\ Len(out) >= 1
    /\ stale # 0
    /\ Len(arg.bytes) >= MAX_PATH_LEN
    /\ Len(out[1].filename) = MAX_PATH_LEN - 1

\* C8: a handle_execve invocation that finds no room in the ring returns at
\* once and changes nothing in the channel: no slot reserved, no record
\* committed, the records in the ring and the positions unchanged.
C8_FullRingDrop ==
    [][(nInv' # nInv /\ ~HasRoom(prod_pos, cons_pos)) =>
          /\ ring' = ring
          /\ prod_pos' = prod_pos
          /\ cons_pos' = cons_pos
          /\ ppc' = ppc
          /\ e' = e
          /\ commitSeq' = commitSeq
          /\ reserveSeq' = reserveSeq]_vars

\* an invocation found the ring full, and the ring is still full
C8_Witness ==
    /\ Len(reserveSeq) < nInv
    /\ Len(ring) = MaxRecords
    /\ ~HasRoom(prod_pos, cons_pos)

\* C9: handle_event has printed at most as many records as there were
\* handle_execve invocations, no record twice, and a record it has been
\* acknowledged for is no longer in the ring.
C9_AtMostOnce ==
    /\ Len(out) <= nInv
    /\ \A i, j \in 1..Len(out) : i # j => out[i].id # out[j].id
    /\ \A i \in 1..Len(out) :
          (i < Len(out) \/ cpc # "ack") =>
              \A k \in 1..Len(ring) : ring[k].id # out[i].id

\* records were emitted, one capture attempt was dropped, and later
\* invocations reused the space of consumed records
C9_Witness ==
    /\ Len(out) >= 2
    /\ Len(reserveSeq) < nInv
    /\ ring # <<>>

\* C10 as stated: no ring_buffer__poll call starts once the stop flag is set.
C10_NoPollAfterStop == pollsAfterStop = 0

\* C10 amended: once the stop flag is set at most one more ring_buffer__poll
\* call starts (the one whose loop test had already read stop = 0), and
\* under fairness main returns.
C10_StopLeadsToReturn == (stop = 1) ~> (cpc = "done" /\ pollsAfterStop <= 1)

\* main returned after a poll that started with the stop flag already set
C10_Witness == pollsAfterStop = 1 /\ cpc = "done" /\ status = 0

\* the producer context that reserved record id
CtxOf(id) == reserveCtx[PosIn(reserveSeq, id)]

\* C11: of two records committed by the same producer context, the one
\* committed first is emitted first: when the later one was emitted, the
\* earlier one was emitted before it, whatever the other contexts and the
\* consumer did in between.
C11_PerContextCommitOrder ==
    \A i, j \in 1..Len(commitSeq) :
        (/\ i < j
         /\ CtxOf(commitSeq[i]) = CtxOf(commitSeq[j])
         /\ PosIn(OutIds, commitSeq[j]) # 0) =>
            /\ PosIn(OutIds, commitSeq[i]) # 0
            /\ PosIn(OutIds, commitSeq[i]) < PosIn(OutIds, commitSeq[j])

\* one context committed two records, another context committed one between
\* the two, and all three were emitted
C11_Witness ==
    /\ Len(commitSeq) = 3
    /\ Len(out) = 3
    /\ CtxOf(commitSeq[1]) = CtxOf(commitSeq[3])
    /\ CtxOf(commitSeq[2]) # CtxOf(commitSeq[1])

\* C12: the bytes held by the records that are reserved or committed and not
\* yet consumed never exceed the capacity of the ring, they are exactly the
\* records between the consumer and the producer position, and a
\* reservation takes one whole record and only when it fits.
C12_ChannelBounded ==
    /\ [](/\ prod_pos - cons_pos <= max_entries
          /\ prod_pos - cons_pos = Len(ring) * RecLen)
    /\ [][prod_pos' # prod_pos =>
            /\ prod_pos' = prod_pos + RecLen
            /\ cons_pos' = cons_pos
            /\ prod_pos' - cons_pos <= max_entries]_vars

\* the ring is full again after records were consumed
C12_Witness ==
    /\ cons_pos > 0
    /\ prod_pos - cons_pos = MaxRecords * RecLen

\* C13: when the read of the pathname faults, handle_execve goes on to
\* submit the record; the filename of the record is empty or a leading part
\* of the pathname, and ts_ns, pid, ppid, uid, gid and comm are those of the
\* calling task, which do not depend on the pathname.
C13_FaultDegradesFilenameOnly ==
    /\ [](arg.fault =>
            \A i \in 1..Len(out) :
                LET t == Task(CtxOf(out[i].id))
                IN  /\ WrittenFields \subseteq out[i].written
                    /\ IsPrefix(out[i].filename, arg.bytes)
                    /\ out[i].ts_ns >= 1
                    /\ out[i].ts_ns < clock
                    /\ out[i].pid = PidOf(t.pid_tgid)
                    /\ out[i].uid = UidOf(t.uid_gid)
                    /\ out[i].gid = GidOf(t.uid_gid)
                    /\ out[i].ppid = t.parent_tgid
                    /\ out[i].comm = CStr(t.comm))
    /\ [][arg.fault =>
            \A p \in Ctx :
                /\ (ppc[p] = "filename" /\ ppc'[p] # "filename") => ppc'[p] = "submit"
                /\ (ppc[p] = "submit" /\ ppc'[p] # "submit") =>
                       /\ Len(commitSeq') = Len(commitSeq) + 1
                       /\ ppc'[p] = "idle"]_vars

\* the read of a non-empty pathname faulted, the slot held stale bytes, and
\* the record was emitted with an empty filename
C13_Witness ==
    /\ arg.fault
    /\ arg.bytes # <<>>
    /\ stale # 0
    /\ Len(out) >= 1
    /\ out[1].filename = <<>>

\* the record with the given id as it was when it was submitted
Snapshot(id) ==
    LET k == CHOOSE k \in 1..Len(committed) : committed[k].id = id
    IN  committed[k].data

\* C14: what handle_event prints for a record is what the record held when
\* it was submitted, a submitted record in the ring still holds it, and no
\* two records in the ring (the one handle_event is running on is still in
\* the ring until it is acknowledged) share bytes of the data area.
C14_DeliveredAsWritten ==
    /\ \A i \in 1..Len(out) :
          /\ PosIn(commitSeq, out[i].id) # 0
          /\ out[i] = handle_event([id |-> out[i].id, busy |-> FALSE,
                                    written |-> out[i].written,
                                    data |-> Snapshot(out[i].id)])
    /\ \A i \in 1..Len(ring) :
          ~ring[i].busy => ring[i].data = Snapshot(ring[i].id)
    /\ \A i, j \in 1..Len(ring) :
          i # j => ~Overlap(ring[i].pos, ring[j].pos)

\* a record was emitted, and a later record that lies in the bytes the first
\* record of the run had used was submitted
C14_Witness ==
    /\ Len(out) >= 1
    /\ \E i \in 1..Len(ring) :
          /\ ~ring[i].busy
          /\ ring[i].pos >= max_entries - 1
          /\ Overlap(ring[i].pos, 0)

\* the first n bytes of the pathname q, all of it when it is shorter
Leading(q, n) == SubSeq(q, 1, IF Len(q) < n THEN Len(q) ELSE n)

\* C15: the filename of a submitted record is the pathname when that has at
\* most 255 bytes and its first 255 bytes when it is longer, followed by a
\* terminator; the field never holds 256 bytes without a terminator.
C15_TruncatedTo255 ==
    /\ \A i \in 1..Len(ring) :
          ~ring[i].busy =>
              /\ HasNul(ring[i].data.filename)
              /\ ~arg.fault =>
                    CStr(ring[i].data.filename) = Leading(arg.bytes, MAX_PATH_LEN - 1)
    /\ \A i \in 1..Len(out) :
          /\ Len(out[i].filename) <= MAX_PATH_LEN - 1
          /\ ~arg.fault => out[i].filename = Leading(arg.bytes, MAX_PATH_LEN - 1)

\* a pathname of 257 bytes was emitted as its first 255 bytes
C15_Witness ==
    /\ ~arg.fault
    /\ Len(arg.bytes) = MAX_PATH_LEN + 1
    /\ Len(out) >= 1
    /\ Len(out[1].filename) = MAX_PATH_LEN - 1
    /\ out[1].filename = SubSeq(arg.bytes, 1, MAX_PATH_LEN - 1)

\* C16: every capture that got a slot is emitted exactly once (the records
\* emitted and those still in the ring are the reservations), and an emitted
\* record carries the values of the calling task: for the task of context 1
\* pid = 100, ppid = 1, uid = 0, gid = 0, comm = "sh", for the tasks of the
\* other contexts the thread-group id, the real parent's thread-group id, the
\* user and the group id of that task; filename is "/bin/sh" and ts_ns is
\* greater than zero.
C16_OneRecordMatchingTask ==
    /\ Len(out) + Len(ring) = Len(reserveSeq) + (IF cpc = "ack" THEN 1 ELSE 0)
    /\ \A i, j \in 1..Len(out) : i # j => out[i].id # out[j].id
    /\ \A i \in 1..Len(out) :
          LET p == CtxOf(out[i].id)
          IN  /\ out[i].ts_ns > 0
              /\ out[i].filename = <<47, 98, 105, 110, 47, 115, 104>>
              /\ IF p = 1
                 THEN /\ out[i].pid = 100
                      /\ out[i].ppid = 1
                      /\ out[i].uid = 0
                      /\ out[i].gid = 0
                      /\ out[i].comm = <<115, 104>>
                 ELSE /\ out[i].pid = 200 + p
                      /\ out[i].ppid = 100
                      /\ out[i].uid = 1000
                      /\ out[i].gid = 1001
                      /\ out[i].comm = [k \in 1..15 |-> 120]

\* captures of two different tasks were emitted and nothing is left in the
\* ring
C16_Witness ==
    /\ ring = <<>>
    /\ Len(out) >= 2
    /\ \E i, j \in 1..Len(out) : out[i].pid = 100 /\ out[j].pid # 100

\* main has reported a failed ring_buffer__poll
PollFailed == msgs # <<>> /\ msgs[Len(msgs)] = "ring_buffer__poll error"

\* C17: when ring_buffer__poll returned a negative value other than -EINTR,
\* main leaves the loop in that iteration, makes no further poll, runs the
\* cleanup and returns a non-zero status; a result of zero or more sends
\* main back to the loop test.
C17_PollErrorFailStop ==
    /\ [](PollFailed => cpc \in {"free", "destroy", "return", "done"})
    /\ []((PollFailed /\ cpc = "done") =>
             /\ status # NULL
             /\ status # 0
             /\ cleanup = <<"ring_buffer__free", "syscall_monitor_bpf__destroy">>)
    /\ [][(cpc = "check" /\ cpc' # "check") =>
             /\ (err >= 0 => cpc' = "loop")
             /\ (err < 0 => cpc' = "free")
             /\ ((err < 0 /\ err # -EINTR) => PollFailed')]_vars
    /\ ((cpc = "check" /\ err < 0 /\ err # -EINTR) ~> (cpc = "done" /\ status = 1))

\* a poll failed after records had been consumed, and main has returned
C17_Witness ==
    /\ cpc = "done"
    /\ PollFailed
    /\ Len(out) >= 1
    /\ status = 1

\* C18: a slot is reserved only while the invocation that reserved it is
\* running: every record with its busy bit set belongs to a context that is
\* inside handle_execve and holds it in e; an invocation that got a slot
\* returns only by the step that submits it, and no record is submitted twice.
C18_ReserveThenSubmit ==
    /\ [](\A i \in 1..Len(ring) :
            ring[i].busy =>
                \E p \in Ctx : ppc[p] # "idle" /\ e[p] = ring[i].pos)
    /\ [](\A i, j \in 1..Len(commitSeq) : i # j => commitSeq[i] # commitSeq[j])
    /\ [][\A p \in Ctx :
            (e[p] # NULL /\ ppc'[p] = "idle") =>
                /\ Len(commitSeq') = Len(commitSeq) + 1
                /\ IndexOf(e[p]) # 0
                /\ commitSeq'[Len(commitSeq')] = ring[IndexOf(e[p])].id
                /\ ~ring'[IndexOf(e[p])].busy]_vars

\* an invocation has submitted its record and returned while the record at
\* the consumer position, reserved earlier by another context, is not yet
\* submitted
C18_Witness ==
    /\ Len(ring) >= 2
    /\ ring[1].busy
    /\ ~ring[2].busy
    /\ ppc[CtxOf(ring[2].id)] = "idle"

\* C19: when the skeleton was opened, main returns only after it has called
\* ring_buffer__free and then syscall_monitor_bpf__destroy, each once, and
\* once the cleanup has begun main makes no poll and handle_event prints
\* nothing.
C19_CleanupOnceBeforeReturn ==
    /\ []((cpc = "done" /\ ~(msgs # <<>> /\ msgs[1] = "failed to open BPF skeleton")) =>
             cleanup = <<"ring_buffer__free", "syscall_monitor_bpf__destroy">>)
    /\ [](IsPrefix(cleanup, <<"ring_buffer__free", "syscall_monitor_bpf__destroy">>))
    /\ [](cleanup # <<>> => cpc \in {"destroy", "return", "done"})
    /\ [][cleanup # <<>> =>
             /\ out' = out
             /\ polled' = polled
             /\ pollsAfterStop' = pollsAfterStop]_vars

\* main has returned after a load failure, both cleanup calls made, rb
\* never created
C19_Witness ==
    /\ cpc = "done"
    /\ msgs = <<"failed to load BPF skeleton">>
    /\ cleanup = <<"ring_buffer__free", "syscall_monitor_bpf__destroy">>
    /\ ~polled

====
